---------------------------- MODULE Spec2Model ----------------------------
(* kt::enum_flags<Enum, N> (src/enum_flags.hpp): a std::bitset<N> indexed  *)
(* by the enumerators of Enum.  One instance (the receiver, `self`) is     *)
(* driven through every member function; the caller's mask object, the     *)
(* callee's by-value parameter and the returned value are kept in the      *)
(* state so that results and frame conditions can be stated on states.     *)
EXTENDS Integers, FiniteSets

\* Template parameter N (number of bits); the enumerators are 0 .. N-1.
N == 4

Pos == 0 .. N - 1
Enum == Pos
Bitsets == [Pos -> BOOLEAN]
NoFlag == 0 - 1

----------------------------------------------------------------------------
(* std::bitset<N> primitives used by the header *)

Zero == [i \in Pos |-> FALSE]
BitAnd(a, b) == [i \in Pos |-> a[i] /\ b[i]]
BitOr(a, b) == [i \in Pos |-> a[i] \/ b[i]]
BitXor(a, b) == [i \in Pos |-> a[i] /= b[i]]
BitFlip(a) == [i \in Pos |-> ~a[i]]
BitSet(a, p) == [a EXCEPT ![p] = TRUE]
BitAny(a) == \E i \in Pos : a[i]
BitNone(a) == \A i \in Pos : ~a[i]

RECURSIVE CountFrom(_, _)
CountFrom(a, p) == IF p >= N THEN 0 ELSE (IF a[p] THEN 1 ELSE 0) + CountFrom(a, p + 1)
BitCount(a) == CountFrom(a, 0)

----------------------------------------------------------------------------
(* Member functions.  Each takes the receiver's bits and the by-value      *)
(* parameter's bits and yields the receiver's bits after the call, the     *)
(* parameter's bits at return and the returned value.                      *)

Result(b, f, r) == [bits |-> b, flags |-> f, ret |-> r]

\* enum_flags() = default
ctor_default == Zero

\* enum_flags(Enum flag): bits.set((size_t)flag)
\* (variant ctor_set_all: bits.set() without the position)
ctor_set_all(flag) == BitFlip(Zero)
ctor_enum(flag) == BitSet(Zero, flag)

\* bool test(flags): (bits & flags.bits) == flags.bits
\* (variant test_any: (bits & flags.bits).any())
test_any(bits, flags) == Result(bits, flags, BitAny(BitAnd(bits, flags)))
test(bits, flags) == Result(bits, flags, BitAnd(bits, flags) = flags)

\* size_t test(): bits.count()
test_count(bits) == Result(bits, Zero, BitCount(bits))

\* set(flags): bits |= flags.bits; return *this
\* (variant set_assign: bits = flags.bits)
set_assign(bits, flags) == Result(flags, flags, flags)
set(bits, flags) == Result(BitOr(bits, flags), flags, BitOr(bits, flags))

\* reset(flags): bits &= flags.bits.flip(); return *this
\* (variant reset_noflip: bits &= flags.bits)
reset_noflip(bits, flags) == Result(BitAnd(bits, flags), flags, BitAnd(bits, flags))
reset(bits, flags) ==
    LET f == BitFlip(flags)
    IN  Result(BitAnd(bits, f), f, BitAnd(bits, f))

\* flip(flags): bits ^= flags.bits; return *this
\* (variant flip_or: bits |= flags.bits)
flip_or(bits, flags) == Result(BitOr(bits, flags), flags, BitOr(bits, flags))
flip(bits, flags) == Result(BitXor(bits, flags), flags, BitXor(bits, flags))

\* set(), reset(), flip(): declared ("Set / Reset / Flip all flags") without
\* a body in the header; every bit is set, cleared, inverted.
set_all(bits) == Result(BitFlip(Zero), Zero, BitFlip(Zero))
reset_all(bits) == Result(Zero, Zero, Zero)
flip_all(bits) == Result(BitFlip(bits), Zero, BitFlip(bits))

\* static inverse(): return enum_flags<Enum, N>().flip()
inverse == flip_all(ctor_default).ret

\* all(flags = inverse()): (flags.bits & bits) == bits
\* (variant all_documented: (flags.bits & bits) == flags.bits)
all_documented(bits, flags) == Result(bits, flags, BitAnd(flags, bits) = flags)
all(bits, flags) == Result(bits, flags, BitAnd(flags, bits) = bits)

\* any(flags = inverse()): (flags.bits & bits).any()
any(bits, flags) == Result(bits, flags, BitAny(BitAnd(flags, bits)))

\* none(flags = inverse()): (flags.bits & bits).none()
none(bits, flags) == Result(bits, flags, BitNone(BitAnd(flags, bits)))

\* count(flags = inverse()): (flags.bits & bits).count()
\* (variant count_unmasked: bits.count())
count_unmasked(bits, flags) == Result(bits, flags, BitCount(bits))
count(bits, flags) == Result(bits, flags, BitCount(BitAnd(flags, bits)))

\* operator[](Enum flag): bits[(size_t)flag], a std::bitset<N>::reference
operator_index(bits, flag) == bits[flag]
operator_index_write(bits, flag, value) == [bits EXCEPT ![flag] = value]

\* operator|=, operator&=, operator^=
\* (variant operator_and_assign_or: bits |= flags.bits in operator&=)
operator_or_assign(bits, flags) == Result(BitOr(bits, flags), flags, BitOr(bits, flags))
operator_and_assign_or(bits, flags) == Result(BitOr(bits, flags), flags, BitOr(bits, flags))
operator_and_assign(bits, flags) == Result(BitAnd(bits, flags), flags, BitAnd(bits, flags))
operator_xor_assign(bits, flags) == Result(BitXor(bits, flags), flags, BitXor(bits, flags))

\* operator|, operator&, operator^: auto ret = *this; ret op= flags; return ret
operator_or(bits, flags) == Result(bits, flags, operator_or_assign(bits, flags).bits)
operator_and(bits, flags) == Result(bits, flags, operator_and_assign(bits, flags).bits)
operator_xor(bits, flags) == Result(bits, flags, operator_xor_assign(bits, flags).bits)

\* operator==(lhs, rhs): lhs.bits == rhs.bits
operator_eq(lhs, rhs) == Result(lhs, rhs, lhs = rhs)

\* A parameter declared `enum_flags<Enum, N> flags` is a copy: whatever the
\* callee does to it, the caller's object keeps the value it passed.
\* (variant PassByReference: the parameter aliases the caller's object)
PassByReference(arg, param) == param
PassByValue(arg, param) == arg

----------------------------------------------------------------------------
(* State *)

VARIABLES
    self,       \* the receiver's bits after the last call
    pre,        \* the receiver's bits before the last call
    mask,       \* the caller's mask object before the last call
    maskAfter,  \* the caller's mask object after the last call
    flags,      \* the callee's parameter at return
    flag,       \* the Enum argument of the last call, NoFlag if none
    ret,        \* the value the last call returned
    op,         \* the last call
    last        \* per enumerator, the most recent single-enumerator
                \* set/reset call that named it ("none" before any)

vars == <<self, pre, mask, maskAfter, flags, flag, ret, op, last>>

NoCalls == [e \in Enum |-> "none"]

Init ==
    /\ self = ctor_default
    /\ pre = ctor_default
    /\ mask = Zero
    /\ maskAfter = Zero
    /\ flags = Zero
    /\ flag = NoFlag
    /\ ret = Zero
    /\ op = "ctor_default"
    /\ last = NoCalls

\* The caller passes mask m (and enumerator e, or NoFlag) to a member
\* function whose effect is r.
CallWith(name, m, e, r) ==
    /\ pre' = self
    /\ self' = r.bits
    /\ mask' = m
    /\ maskAfter' = PassByValue(m, r.flags)
    /\ flags' = r.flags
    /\ flag' = e
    /\ ret' = r.ret
    /\ op' = name

Call(name, m, r) == CallWith(name, m, NoFlag, r)

\* A call of a member function that takes no mask.
Call0(name, r) == Call(name, Zero, r)

ConstructDefault ==
    /\ self' = ctor_default
    /\ pre' = ctor_default
    /\ mask' = Zero /\ maskAfter' = Zero /\ flags' = Zero
    /\ flag' = NoFlag
    /\ ret' = Zero
    /\ op' = "ctor_default"
    /\ UNCHANGED last

ConstructEnum ==
    \E e \in Enum :
        /\ self' = ctor_enum(e)
        /\ pre' = ctor_enum(e)
        /\ mask' = Zero /\ maskAfter' = Zero /\ flags' = Zero
        /\ flag' = e
        /\ ret' = Zero
        /\ op' = "ctor_enum"
        /\ UNCHANGED last

Test == \E m \in Bitsets : Call("test", m, test(self, m)) /\ UNCHANGED last
TestCount == Call0("test_count", test_count(self)) /\ UNCHANGED last
Set == \E m \in Bitsets : Call("set", m, set(self, m)) /\ UNCHANGED last
Reset == \E m \in Bitsets : Call("reset", m, reset(self, m)) /\ UNCHANGED last
Flip == \E m \in Bitsets : Call("flip", m, flip(self, m)) /\ UNCHANGED last
SetAll == Call0("set_all", set_all(self)) /\ UNCHANGED last
ResetAll == Call0("reset_all", reset_all(self)) /\ UNCHANGED last
FlipAll == Call0("flip_all", flip_all(self)) /\ UNCHANGED last
All == \E m \in Bitsets : Call("all", m, all(self, m)) /\ UNCHANGED last
Any == \E m \in Bitsets : Call("any", m, any(self, m)) /\ UNCHANGED last
None == \E m \in Bitsets : Call("none", m, none(self, m)) /\ UNCHANGED last
Count == \E m \in Bitsets : Call("count", m, count(self, m)) /\ UNCHANGED last
OrAssign == \E m \in Bitsets : Call("or_assign", m, operator_or_assign(self, m)) /\ UNCHANGED last
AndAssign == \E m \in Bitsets : Call("and_assign", m, operator_and_assign(self, m)) /\ UNCHANGED last
XorAssign == \E m \in Bitsets : Call("xor_assign", m, operator_xor_assign(self, m)) /\ UNCHANGED last
Or == \E m \in Bitsets : Call("or", m, operator_or(self, m)) /\ UNCHANGED last
And == \E m \in Bitsets : Call("and", m, operator_and(self, m)) /\ UNCHANGED last
Xor == \E m \in Bitsets : Call("xor", m, operator_xor(self, m)) /\ UNCHANGED last
Eq == \E m \in Bitsets : Call("eq", m, operator_eq(self, m)) /\ UNCHANGED last

\* flags[e] read: the reference converts to bool
IndexRead ==
    \E e \in Enum :
        /\ CallWith("index_read", Zero, e, Result(self, Zero, operator_index(self, e)))
        /\ UNCHANGED last

\* flags[e] = b: assignment through the reference
IndexWrite ==
    \E e \in Enum, b \in BOOLEAN :
        /\ CallWith("index_write", Zero, e, Result(operator_index_write(self, e, b), Zero, b))
        /\ UNCHANGED last

Next ==
    \/ ConstructDefault
    \/ ConstructEnum
    \/ Test
    \/ TestCount
    \/ Set
    \/ Reset
    \/ Flip
    \/ SetAll
    \/ ResetAll
    \/ FlipAll
    \/ All
    \/ Any
    \/ None
    \/ Count
    \/ OrAssign
    \/ AndAssign
    \/ XorAssign
    \/ Or
    \/ And
    \/ Xor
    \/ Eq
    \/ IndexRead
    \/ IndexWrite

Spec == Init /\ [][Next]_vars

----------------------------------------------------------------------------
(* Chains of single-enumerator set(e) / reset(e) calls on a default-       *)
(* constructed instance.  The Enum argument converts to the by-value       *)
(* parameter through the implicit constructor enum_flags(Enum).            *)

SetEnum ==
    \E e \in Enum :
        /\ CallWith("set", ctor_enum(e), e, set(self, ctor_enum(e)))
        /\ last' = [last EXCEPT ![e] = "set"]

ResetEnum ==
    \E e \in Enum :
        /\ CallWith("reset", ctor_enum(e), e, reset(self, ctor_enum(e)))
        /\ last' = [last EXCEPT ![e] = "reset"]

NextSetReset ==
    \/ SetEnum
    \/ ResetEnum

SpecSetReset == Init /\ [][NextSetReset]_vars

----------------------------------------------------------------------------
(* Properties *)

Queries == {"test", "test_count", "all", "any", "none", "count", "eq", "index_read"}
Binary == {"or", "and", "xor"}
Mutators == {"set", "reset", "flip", "set_all", "reset_all", "flip_all",
             "or_assign", "and_assign", "xor_assign", "index_write"}

SetBits(b) == {i \in Pos : b[i]}

\* C1: s.all(m) is true iff every bit set in m is also set in s; with
\* m = inverse() (the default mask) that is: iff all N bits of s are set.
C1_AllIffMaskSubsetOfSelf ==
    op = "all" => (ret <=> \A i \in Pos : mask[i] => pre[i])

\* C2: s.test(m) is true iff every bit set in m is also set in s; test of
\* the empty mask is true for every s.
C2_TestIffMaskSubsetOfSelf ==
    /\ op = "test" => (ret <=> \A i \in Pos : mask[i] => pre[i])
    /\ test(self, Zero).ret

C2_Witness ==
    /\ op = "test"
    /\ ret = TRUE
    /\ mask /= Zero
    /\ mask /= pre

\* C3: the instance constructed from an in-range enumerator e has exactly
\* bit e set: test(e) is true, count() is 1, test(e') is false for e' /= e.
C3_EnumCtorSetsExactlyOneBit ==
    op = "ctor_enum" =>
        /\ \A i \in Pos : self[i] <=> i = flag
        /\ test(self, ctor_enum(flag)).ret
        /\ count(self, inverse).ret = 1
        /\ \A e \in Enum \ {flag} : ~test(self, ctor_enum(e)).ret

C3_Witness ==
    /\ op = "ctor_enum"
    /\ flag = 2
    /\ self[2]
    /\ count(self, inverse).ret = 1

\* C4: after s.reset(m) every bit of m is clear in s and every bit outside m
\* keeps its value; after reset() with no argument s is empty, count() is 0.
C4_ResetClearsExactlyMask ==
    /\ op = "reset" =>
          \A i \in Pos : /\ mask[i] => ~self[i]
                         /\ ~mask[i] => self[i] = pre[i]
    /\ op = "reset_all" => self = Zero /\ count(self, inverse).ret = 0

C4_Witness ==
    /\ op = "reset"
    /\ \E i, j \in Pos :
          /\ mask[i] /\ pre[i] /\ ~self[i]
          /\ ~mask[j] /\ pre[j] /\ self[j]

\* C5: flip(m) XORs s with m and flip() inverts every bit, so a second
\* flip(m) after flip(m), and a second flip() after flip(), restore s.
C5_FlipTwiceRestores ==
    /\ op = "flip" =>
          /\ \A i \in Pos : self[i] <=> (pre[i] /= mask[i])
          /\ flip(self, mask).bits = pre
    /\ op = "flip_all" =>
          /\ \A i \in Pos : self[i] <=> ~pre[i]
          /\ flip_all(self).bits = pre

C5_Witness ==
    /\ op = "flip"
    /\ mask /= Zero
    /\ mask /= inverse
    /\ self /= pre
    /\ flip(self, mask).bits = pre

\* C6: a | b == b | a, a & b == b & a, a ^ b == b ^ a; a & inverse() == a;
\* a ^ a == the default-constructed instance.
C6_BitwiseAlgebra ==
    /\ op = "or" => operator_eq(ret, operator_or(mask, pre).ret).ret
    /\ op = "and" => operator_eq(ret, operator_and(mask, pre).ret).ret
    /\ op = "xor" => operator_eq(ret, operator_xor(mask, pre).ret).ret
    /\ operator_eq(operator_and(self, inverse).ret, self).ret
    /\ operator_eq(operator_xor(self, self).ret, ctor_default).ret

C6_Witness ==
    /\ op = "and"
    /\ pre /= mask
    /\ ret /= Zero
    /\ ret /= pre
    /\ ret /= mask

\* C7: only the in-place mutators change the receiver; queries and the
\* binary operators leave it unchanged; the caller's mask object is
\* unchanged by every call, reset(mask) included.
C7_OnlyMutatorsChangeReceiver ==
    /\ maskAfter = mask
    /\ op \in Queries \cup Binary => self = pre
    /\ self /= pre => op \in Mutators

C7_Witness ==
    /\ op = "reset"
    /\ flags /= mask
    /\ maskAfter = mask
    /\ self /= pre

\* C8: s.count(m) is the number of positions set in both s and m (all set
\* bits of s with the default mask); any(m) iff count(m) > 0; none(m) iff
\* count(m) = 0; any(m) and none(m) are each other's negation.
C8_CountAnyNone ==
    /\ op = "count" => ret = Cardinality(SetBits(pre) \cap SetBits(mask))
    /\ op = "any" => (ret <=> count(pre, mask).ret > 0)
    /\ op = "none" => (ret <=> count(pre, mask).ret = 0)
    /\ count(self, inverse).ret = Cardinality(SetBits(self))
    /\ \A m \in Bitsets : any(self, m).ret <=> ~none(self, m).ret

C8_Witness ==
    /\ op = "count"
    /\ ret = 2
    /\ Cardinality(SetBits(pre)) = 3
    /\ Cardinality(SetBits(mask)) = 3

\* C9: from the empty instance, after any sequence of set(e) / reset(e),
\* test(e) is true iff the most recent call naming e was set(e); count() and
\* test() equal the number of such enumerators; any() / none() agree; a
\* repeated set(m) leaves the state as after the first.
WasSet == {e \in Enum : last[e] = "set"}

C9_SetResetHistory ==
    /\ \A e \in Enum : test(self, ctor_enum(e)).ret <=> e \in WasSet
    /\ count(self, inverse).ret = Cardinality(WasSet)
    /\ test_count(self).ret = Cardinality(WasSet)
    /\ any(self, inverse).ret <=> WasSet /= {}
    /\ none(self, inverse).ret <=> WasSet = {}
    /\ op = "set" => set(self, mask).bits = self

C9_Witness ==
    /\ op = "reset"
    /\ flag = 0
    /\ pre = BitOr(ctor_enum(0), ctor_enum(2))
    /\ last = [e \in Enum |-> IF e = 0 THEN "reset" ELSE IF e = 2 THEN "set" ELSE "none"]
    /\ count(self, inverse).ret = 1
    /\ self = ctor_enum(2)

=============================================================================
